---------------------------- MODULE Spec2Model ----------------------------
(***************************************************************************)
(* A model of dkim/__init__.py (dkimpy): the canonicalizers, the RFC 822   *)
(* parser, the signature-field validator, the header-hash composer, the    *)
(* header folder and the sign / verify pipelines.                           *)
(*                                                                         *)
(* A byte string is a sequence of one-character strings.  The module is    *)
(* Python 2 code (it uses "except X, e"), so the regular expressions       *)
(* follow Python 2.7's re module: "$" matches at the end of the string and *)
(* just before a final "\n", and re.sub ignores an empty match that        *)
(* touches the previous match.                                              *)
(*                                                                         *)
(* A digest, an RSA signature and a key are opaque values carried in the   *)
(* text as one element each (a string that is no character of the          *)
(* alphabet); they are built with ToString, which is injective on the      *)
(* values used here, so the digest and RSA are collision-free.             *)
(***************************************************************************)
EXTENDS Integers, Sequences, FiniteSets, TLC

VARIABLES
    pc,              \* the position of the run
    canonicalize,    \* <<header scheme, body scheme>>, each "simple" or "relaxed"
    message,         \* the raw message bytes
    headers,         \* a list of <<name, value>> pairs
    body,            \* a body byte string
    once,            \* the result of the first canonicalization pass
    include_headers, \* hash_headers: the header names still to select
    lastindex,       \* hash_headers: the per-name cursor
    sign_headers,    \* hash_headers: the headers selected for the digest
    sigheaders,      \* hash_headers: the DKIM-Signature headers of the message
    sig,             \* the parsed DKIM-Signature tag list
    hasher,          \* the bytes fed to the digest so far
    header,          \* fold: the text still to fold
    pre,             \* fold: the text already emitted
    args,            \* the arguments of sign, or the resolver of verify
    original,        \* the message before it was changed in transit
    result           \* what the last call returned or raised

vars == <<pc, canonicalize, message, headers, body, once, include_headers,
          lastindex, sign_headers, sigheaders, sig, hasher, header, pre,
          args, original, result>>

canonVars == <<headers, body, once>>
hashVars == <<include_headers, lastindex, sign_headers, sigheaders, sig, hasher>>
foldVars == <<header, pre>>
pipeVars == <<message, args, original, result>>

-----------------------------------------------------------------------------
(* Characters *)

CR == "\r"
LF == "\n"
TAB == "\t"
SP == " "
FF == "\f"
\* a byte outside [\x09-\x0d\x20-\x7e], here \x01
CTL == "^A"

CRLF == <<CR, LF>>

UpperSeq == <<"A","B","C","D","E","F","G","H","I","J","K","L","M",
              "N","O","P","Q","R","S","T","U","V","W","X","Y","Z">>
LowerSeq == <<"a","b","c","d","e","f","g","h","i","j","k","l","m",
              "n","o","p","q","r","s","t","u","v","w","x","y","z">>
DigitSeq == <<"0","1","2","3","4","5","6","7","8","9">>

Range(s) == {s[i] : i \in DOMAIN s}

Upper == Range(UpperSeq)
Lower == Range(LowerSeq)
Digits == Range(DigitSeq)
Punct == {"!","#","$","%","&","'","(",")","*","+",",","-",".","/",":",
          ";","<","=",">","?","@","[","\\","]","^","_","{","|","}","~"}

\* [\x09\x20]
WSP == {TAB, SP}
\* \s, and what str.strip() removes (\x0b is not in the alphabet)
Whitespace == {SP, TAB, LF, CR, FF}
Alphabet == Upper \cup Lower \cup Digits \cup Punct \cup Whitespace \cup {CTL}

\* an opaque value (a digest, a signature, a key) in base64 form
IsOpaque(c) == c \notin Alphabet
\* [\x21-\x7e]
IsPrintable(c) == c \in Upper \cup Lower \cup Digits \cup Punct \/ IsOpaque(c)
\* \w
IsWord(c) == c \in Upper \cup Lower \cup Digits \cup {"_"}
\* [\s0-9A-Za-z+/]
IsBase64(c) == c \in Whitespace \cup Digits \cup Upper \cup Lower \cup {"+", "/"}
               \/ IsOpaque(c)

LowerOf == [c \in Upper |-> LowerSeq[CHOOSE i \in 1..26 : UpperSeq[i] = c]]
\* str.lower() on one character
lowerChar(c) == IF c \in Upper THEN LowerOf[c] ELSE c
\* str.lower()
lower(s) == [i \in DOMAIN s |-> lowerChar(s[i])]

-----------------------------------------------------------------------------
(* Python string operations *)

Min(a, b) == IF a < b THEN a ELSE b
Max(a, b) == IF a > b THEN a ELSE b

\* a slice index as Python clamps it
SliceIndex(s, i) == IF i < 0 THEN Max(Len(s) + i, 0) ELSE Min(i, Len(s))
\* s[a:b]
Slice(s, a, b) == SubSeq(s, SliceIndex(s, a) + 1, SliceIndex(s, b))
\* s[a:]
SliceFrom(s, a) == SubSeq(s, SliceIndex(s, a) + 1, Len(s))
\* s[:b]
SliceTo(s, b) == SubSeq(s, 1, SliceIndex(s, b))

\* t occurs in s at the 0-based offset p
OccursAt(s, t, p) ==
    /\ p >= 0
    /\ p + Len(t) <= Len(s)
    /\ \A k \in 1..Len(t) : s[p + k] = t[k]

MinOf(S) == CHOOSE x \in S : \A y \in S : x <= y
MaxOf(S) == CHOOSE x \in S : \A y \in S : y <= x

\* the 0-based offsets at which t occurs in s
Occurrences(s, t) == {p \in 0..Len(s) : OccursAt(s, t, p)}

\* s.find(t)
find(s, t) == IF Occurrences(s, t) = {} THEN -1 ELSE MinOf(Occurrences(s, t))

\* s.rfind(t)
rfind(s, t) == IF Occurrences(s, t) = {} THEN -1 ELSE MaxOf(Occurrences(s, t))

\* the elements of a finite set of integers in ascending order
Sorted(S) ==
    [k \in 1..Cardinality(S) |->
        CHOOSE x \in S : Cardinality({y \in S : y < x}) = k - 1]

\* the concatenation of parts[lo..hi], by halves
RECURSIVE ConcatRange(_, _, _)
ConcatRange(parts, lo, hi) ==
    IF lo > hi THEN <<>>
    ELSE IF lo = hi THEN parts[lo]
    ELSE LET mid == (lo + hi) \div 2
         IN  ConcatRange(parts, lo, mid) \o ConcatRange(parts, mid + 1, hi)

\* the concatenation of a list of byte strings
Concat(parts) == ConcatRange(parts, 1, Len(parts))

startswith(s, t) == OccursAt(s, t, 0)
endswith(s, t) == OccursAt(s, t, Len(s) - Len(t))

\* the length of the longest prefix of s from the 0-based offset p in class C
RunLen(s, p, C) ==
    MinOf({q \in p..Len(s) : q = Len(s) \/ s[q + 1] \notin C}) - p

\* s.rstrip()
rstrip(s) ==
    LET keep == {i \in 1..Len(s) : s[i] \notin Whitespace}
    IN  IF keep = {} THEN <<>>
        ELSE SubSeq(s, 1, CHOOSE i \in keep : \A j \in keep : j <= i)

\* s.lstrip()
lstrip(s) == SliceFrom(s, RunLen(s, 0, Whitespace))

\* s.strip()
strip(s) == lstrip(rstrip(s))

\* sep.join(parts)
join(sep, parts) ==
    Concat([k \in DOMAIN parts |-> IF k = 1 THEN parts[k] ELSE sep \o parts[k]])

-----------------------------------------------------------------------------
(* Regular expressions, as Python 2.7's re module evaluates them *)

\* "$" at the 0-based offset q: the end, or just before a final "\n"
AtEnd(s, q) == q = Len(s) \/ (q = Len(s) - 1 /\ s[Len(s)] = LF)

\* the number of "\r\n" in a row from the 0-based offset p
RECURSIVE CrlfRun(_, _)
CrlfRun(s, p) == IF OccursAt(s, CRLF, p) THEN 1 + CrlfRun(s, p + 2) ELSE 0

\* where "(\r\n)*$" tried at the offset p ends, -1 when it does not match:
\* the star is greedy and gives pairs back until "$" matches
TrailingMatchEnd(s, p) ==
    LET ks == {k \in 0..CrlfRun(s, p) : AtEnd(s, p + 2 * k)}
    IN  IF ks = {} THEN -1
        ELSE p + 2 * (CHOOSE k \in ks : \A j \in ks : j <= k)

\* re.search of "(\r\n)*$" from the offset start: the leftmost match, or -1
TrailingSearch(s, start) ==
    LET ps == {p \in start..Len(s) : TrailingMatchEnd(s, p) # -1}
    IN  IF ps = {} THEN -1 ELSE MinOf(ps)

\* the loop of re.sub("(\r\n)*$", "\r\n", s): i is the end of the text copied
\* so far, n the number of replacements made
RECURSIVE TrailingSubLoop(_, _, _, _)
TrailingSubLoop(s, start, i, n) ==
    LET b == TrailingSearch(s, start)
        e == TrailingMatchEnd(s, b)
        next == IF e = b THEN e + 1 ELSE e
    IN  IF b = -1 THEN SliceFrom(s, i)
        ELSE IF i = b /\ i = e /\ n > 0
             \* an empty match on the latest position is ignored
             THEN TrailingSubLoop(s, next, i, n)
        ELSE Slice(s, i, b) \o CRLF \o TrailingSubLoop(s, next, e, n + 1)

\* re.sub("(\r\n)*$", "\r\n", s)
SubTrailingCrlf(s) == TrailingSubLoop(s, 0, 0, 0)

\* re.sub("[\x09\x20]+\r\n", "\r\n", s): a byte goes when it is a tab or a
\* space and the run it is in ends at a "\r\n"
SubWspCrlf(s) ==
    Concat([i \in DOMAIN s |->
        IF s[i] \in WSP /\ OccursAt(s, CRLF, i - 1 + RunLen(s, i - 1, WSP))
        THEN <<>> ELSE <<s[i]>>])

\* re.sub(C+, " ", s) for a character class C: the first byte of a run
\* becomes the space, the others go
SubRuns(s, C) ==
    Concat([i \in DOMAIN s |->
        IF s[i] \notin C THEN <<s[i]>>
        ELSE IF i = 1 \/ s[i - 1] \notin C THEN <<SP>>
        ELSE <<>>])

\* re.sub("\r\n", "", s)
SubCrlf(s) ==
    Concat([i \in DOMAIN s |->
        IF OccursAt(s, CRLF, i - 1) \/ OccursAt(s, CRLF, i - 2)
        THEN <<>> ELSE <<s[i]>>])

-----------------------------------------------------------------------------
(* class Simple, class Relaxed *)

Simple == "simple"
Relaxed == "relaxed"
Schemes == {Simple, Relaxed}

Simple_canonicalize_headers(hs) == hs

Simple_canonicalize_body(b) == SubTrailingCrlf(b)

Relaxed_canonicalize_headers(hs) ==
    [i \in DOMAIN hs |->
        <<lower(hs[i][1]),
          strip(SubRuns(SubCrlf(hs[i][2]), Whitespace)) \o CRLF>>]

Relaxed_canonicalize_body(b) ==
    SubTrailingCrlf(SubRuns(SubWspCrlf(b), WSP))

\* scheme.canonicalize_headers(hs)
canonicalize_headers(scheme, hs) ==
    IF scheme = Simple THEN Simple_canonicalize_headers(hs)
    ELSE Relaxed_canonicalize_headers(hs)

\* scheme.canonicalize_body(b)
canonicalize_body(scheme, b) ==
    IF scheme = Simple THEN Simple_canonicalize_body(b)
    ELSE Relaxed_canonicalize_body(b)

-----------------------------------------------------------------------------
(* rfc822_parse *)

\* re.split("\r?\n", s): the text between the line ends, a "\r" before a
\* "\n" being part of the line end
SplitLines(s) ==
    LET at == Sorted({p \in 1..Len(s) : s[p] = LF})
        sepStart(p) == IF p > 1 /\ s[p - 1] = CR THEN p - 1 ELSE p
    IN  [k \in 1..(Len(at) + 1) |->
            SubSeq(s, IF k = 1 THEN 1 ELSE at[k - 1] + 1,
                      IF k = Len(at) + 1 THEN Len(s) ELSE sepStart(at[k]) - 1)]

\* re.match(r"([\x21-\x7e]+?):", line): the length of the shortest name
\* matched, 0 when the line does not match
HeaderNameLen(line) ==
    LET ks == {k \in 1..(Len(line) - 1) : line[k + 1] = ":"}
        k0 == MinOf(ks)
    IN  IF ks = {} THEN 0
        ELSE IF \A j \in 1..k0 : IsPrintable(line[j]) THEN k0
        ELSE 0

\* lines 198-213: the loop over the lines from line i (0-based), hs being
\* the headers read so far
RECURSIVE ParseLines(_, _, _)
ParseLines(lines, i, hs) ==
    LET line == lines[i + 1]
        n == HeaderNameLen(line)
    IN  IF i >= Len(lines)
        THEN [exc |-> "", headers |-> hs, body |-> <<>>]
        ELSE IF Len(line) = 0
        THEN [exc |-> "", headers |-> hs,
              body |-> join(CRLF, SubSeq(lines, i + 2, Len(lines)))]
        ELSE IF line[1] \in WSP
        THEN IF hs = <<>>
             \* headers[-1] of an empty list
             THEN [exc |-> "IndexError", headers |-> hs, body |-> <<>>]
             ELSE ParseLines(lines, i + 1,
                    [hs EXCEPT ![Len(hs)] = <<@[1], @[2] \o line \o CRLF>>])
        ELSE IF n > 0
        THEN ParseLines(lines, i + 1,
                Append(hs, <<SubSeq(line, 1, n),
                             SubSeq(line, n + 2, Len(line)) \o CRLF>>))
        ELSE IF startswith(line, <<"F", "r", "o", "m", SP>>)
        THEN ParseLines(lines, i + 1, hs)
        ELSE [exc |-> "MessageFormatError", headers |-> hs, body |-> <<>>]

rfc822_parse(m) == ParseLines(SplitLines(m), 0, <<>>)

-----------------------------------------------------------------------------
(* dkim.util.parse_tag_value: a tag list is a list of <<key, value>> *)

\* s.split(c)
SplitAt(s, c) ==
    LET at == Sorted({p \in 1..Len(s) : s[p] = c})
    IN  [k \in 1..(Len(at) + 1) |->
            SubSeq(s, IF k = 1 THEN 1 ELSE at[k - 1] + 1,
                      IF k = Len(at) + 1 THEN Len(s) ELSE at[k] - 1)]

parse_tag_value(text) ==
    LET specs == SplitAt(text, ";")
        eq(k) == find(specs[k], <<"=">>)
        tags == [k \in DOMAIN specs |->
                    <<strip(SliceTo(specs[k], eq(k))),
                      strip(SliceFrom(specs[k], eq(k) + 1))>>]
    IN  IF \/ \E k \in DOMAIN specs : eq(k) = -1
           \/ \E j, k \in DOMAIN specs : j # k /\ tags[j][1] = tags[k][1]
        THEN [exc |-> "InvalidTagValueList", tags |-> <<>>]
        ELSE [exc |-> "", tags |-> tags]

\* key in sig
HasTag(tags, key) == \E k \in DOMAIN tags : tags[k][1] = key
\* sig[key]
Tag(tags, key) == tags[CHOOSE k \in DOMAIN tags : tags[k][1] = key][2]

-----------------------------------------------------------------------------
(* validate_signature_fields *)

MaxLengthDigits == 76

\* re.match(r"[\s0-9A-Za-z+/]+=*$", s)
MatchesBase64(s) ==
    \E m \in 1..Len(s) : \E e \in m..Len(s) :
        /\ \A j \in 1..m : IsBase64(s[j])
        /\ \A j \in (m + 1)..e : s[j] = "="
        /\ AtEnd(s, e)

\* re.match(r"\d{lo,hi}$", s)
MatchesDigits(s, lo, hi) ==
    \E m \in lo..Min(hi, Len(s)) :
        /\ \A j \in 1..m : s[j] \in Digits
        /\ AtEnd(s, m)

DigitValue == [c \in Digits |-> (CHOOSE i \in 1..10 : DigitSeq[i] = c) - 1]

\* int(s) of decimal digits
RECURSIVE int(_)
int(s) ==
    IF s = <<>> THEN 0
    ELSE 10 * int(SubSeq(s, 1, Len(s) - 1)) + DigitValue[s[Len(s)]]

\* str(n) of a natural number
RECURSIVE str(_)
str(n) == IF n < 10 THEN <<DigitSeq[n + 1]>>
          ELSE str(n \div 10) \o <<DigitSeq[(n % 10) + 1]>>

mandatory_fields == <<<<"v">>, <<"a">>, <<"b">>, <<"b", "h">>, <<"d">>, <<"h">>, <<"s">>>>

\* lines 162-167, the i= check: what it raises, "" when it passes.  The
\* message of its ValidationError formats d, a string, with %d, which
\* raises TypeError before the ValidationError is built.
validate_identity(i, d) ==
    IF ~endswith(i, d) THEN "TypeError"
    ELSE IF Len(i) - Len(d) - 1 < 0 THEN "IndexError"
    ELSE IF i[Len(i) - Len(d)] \notin {"@", "."} THEN "TypeError"
    ELSE ""

\* lines 176-183, the x= check
validate_expiration(tags) ==
    IF ~MatchesDigits(Tag(tags, <<"x">>), 1, Len(Tag(tags, <<"x">>)))
    THEN "ValidationError"
    ELSE IF ~HasTag(tags, <<"t">>) THEN "KeyError"
    ELSE IF int(Tag(tags, <<"x">>)) < int(Tag(tags, <<"t">>))
    THEN "ValidationError"
    ELSE ""

\* what validate_signature_fields raises, "" when it returns
validate_signature_fields(tags) ==
    IF \E k \in DOMAIN mandatory_fields : ~HasTag(tags, mandatory_fields[k])
    THEN "ValidationError"
    ELSE IF Tag(tags, <<"v">>) # <<"1">> THEN "ValidationError"
    ELSE IF ~MatchesBase64(Tag(tags, <<"b">>)) THEN "ValidationError"
    ELSE IF ~MatchesBase64(Tag(tags, <<"b", "h">>)) THEN "ValidationError"
    ELSE IF /\ HasTag(tags, <<"i">>)
            /\ validate_identity(Tag(tags, <<"i">>), Tag(tags, <<"d">>)) # ""
    THEN validate_identity(Tag(tags, <<"i">>), Tag(tags, <<"d">>))
    ELSE IF /\ HasTag(tags, <<"l">>)
            /\ ~MatchesDigits(Tag(tags, <<"l">>), 0, MaxLengthDigits)
    THEN "ValidationError"
    ELSE IF /\ HasTag(tags, <<"q">>)
            /\ Tag(tags, <<"q">>) # <<"d", "n", "s", "/", "t", "x", "t">>
    THEN "ValidationError"
    ELSE IF /\ HasTag(tags, <<"t">>)
            /\ ~MatchesDigits(Tag(tags, <<"t">>), 1, Len(Tag(tags, <<"t">>)))
    THEN "ValidationError"
    ELSE IF HasTag(tags, <<"x">>) THEN validate_expiration(tags)
    ELSE ""

-----------------------------------------------------------------------------
(* fold *)

FoldWidth == 72

\* lines 249-255: what precedes the last "\r\n " is emitted as it is
fold_start(h) ==
    LET i == rfind(h, <<CR, LF, SP>>)
    IN  IF i = -1 THEN [pre |-> <<>>, header |-> h]
        ELSE [pre |-> SliceTo(h, i + 3), header |-> SliceFrom(h, i + 3)]

\* lines 257-263: one turn of the while loop
fold_step(f) ==
    LET i == rfind(SliceTo(f.header, FoldWidth), <<SP>>)
        j == IF i = -1 THEN i ELSE i + 1
    IN  [pre |-> f.pre \o SliceTo(f.header, i) \o <<CR, LF, SP>>,
         header |-> SliceFrom(f.header, j)]

RECURSIVE fold_loop(_)
fold_loop(f) ==
    IF Len(f.header) > FoldWidth THEN fold_loop(fold_step(f))
    ELSE f.pre \o f.header

fold(h) == fold_loop(fold_start(h))

-----------------------------------------------------------------------------
(* hashlib, base64 and dkim.crypto: opaque, collision-free values *)

\* hasher().update(bytes).digest()
Digest(alg, bytes) == ToString(<<alg, bytes>>)

\* base64.b64encode(value): one opaque element of text
b64encode(value) == <<value>>

\* base64.b64decode(text): the value encoded; other text decodes to bytes
\* of its own when its length is a multiple of 4, and is refused if not
b64decode(text) ==
    IF Len(text) = 1 /\ IsOpaque(text[1]) THEN [exc |-> "", value |-> text[1]]
    ELSE IF Len(text) % 4 # 0 THEN [exc |-> "TypeError", value |-> ""]
    ELSE [exc |-> "", value |-> ToString(<<"bytes", text>>)]

\* re.sub(r"\s+", "", s)
RemoveWhitespace(s) == SelectSeq(s, LAMBDA c : c \notin Whitespace)

KeyIds == {"k1", "k2"}
\* the PEM text of the private key k, and the DER bytes of its public key
PemOf(k) == "PEM:" \o k
DerOf(k) == "DER:" \o k

parse_pem_private_key(pem) ==
    IF \E k \in KeyIds : pem = PemOf(k)
    THEN [exc |-> "", key |-> CHOOSE k \in KeyIds : pem = PemOf(k)]
    ELSE [exc |-> "UnparsableKeyError", key |-> ""]

parse_public_key(der) ==
    IF \E k \in KeyIds : der = DerOf(k)
    THEN [exc |-> "", key |-> CHOOSE k \in KeyIds : der = DerOf(k)]
    ELSE [exc |-> "UnparsableKeyError", key |-> ""]

RSASSA_PKCS1_v1_5_sign(digest, key) == ToString(<<"RSA", key, digest>>)

RSASSA_PKCS1_v1_5_verify(digest, signature, key) ==
    signature = RSASSA_PKCS1_v1_5_sign(digest, key)

-----------------------------------------------------------------------------
(* hash_headers *)

\* _remove(s, t)
_remove(s, t) ==
    LET i == find(s, t)
    IN  IF i < 0 THEN [exc |-> "AssertionError", value |-> s]
        ELSE [exc |-> "", value |-> SliceTo(s, i) \o SliceFrom(s, i + Len(t))]

\* lastindex.get(h, default)
lastindex_get(li, h, default) == IF h \in DOMAIN li THEN li[h] ELSE default

\* lines 124-130: one turn of the loop over include_headers
select_header(st, h, hs) ==
    LET found == {k \in 0..(lastindex_get(st.lastindex, h, Len(hs)) - 1) :
                     lower(h) = lower(hs[k + 1][1])}
        i == IF found = {} THEN 0 ELSE MaxOf(found)
    IN  [lastindex |->
            [x \in DOMAIN st.lastindex \cup {h} |->
                IF x = h THEN i ELSE st.lastindex[x]],
         sign_headers |->
            IF found = {} THEN st.sign_headers
            ELSE Append(st.sign_headers, hs[i + 1])]

\* lines 121-130: the loop over include_headers[k..]
RECURSIVE select_headers(_, _, _, _)
select_headers(st, include, k, hs) ==
    IF k > Len(include) THEN st
    ELSE select_headers(select_header(st, include[k], hs), include, k + 1, hs)

NoIndex == [x \in {} |-> 0]

\* the same header canonicalized and left as it stands
signature_headers_unstripped(scheme, sigs, tags) ==
    canonicalize_headers(scheme,
        <<<<sigs[1][1], _remove(sigs[1][2], Tag(tags, <<"b">>)).value>>>>)

\* lines 133-135: the DKIM-Signature header without its b= value,
\* canonicalized and right-stripped
signature_headers(scheme, sigs, tags) ==
    LET cheaders == canonicalize_headers(scheme,
            <<<<sigs[1][1], _remove(sigs[1][2], Tag(tags, <<"b">>)).value>>>>)
    IN  [k \in DOMAIN cheaders |-> <<cheaders[k][1], rstrip(cheaders[k][2])>>]

\* a digest fed the names of the list hs only
hasher_update_names(hs) == Concat([k \in DOMAIN hs |-> hs[k][1]])

\* lines 136-139: what the digest is fed for the list hs
hasher_update(hs) ==
    Concat([k \in DOMAIN hs |-> hs[k][1] \o <<":">> \o hs[k][2]])

\* the list hash_headers ends with, the bytes it feeds and what it raises
hash_headers(scheme, hs, include, sigs, tags) ==
    LET selected == select_headers(
            [lastindex |-> NoIndex, sign_headers |-> <<>>], include, 1, hs)
        fed == selected.sign_headers \o signature_headers(scheme, sigs, tags)
    IN  [exc |-> _remove(sigs[1][2], Tag(tags, <<"b">>)).exc,
         sign_headers |-> fed,
         hasher |-> hasher_update(fed)]

-----------------------------------------------------------------------------
(* sign *)

DKIM_Signature == <<"D","K","I","M","-","S","i","g","n","a","t","u","r","e">>
rsa_sha1 == <<"r","s","a","-","s","h","a","1">>
rsa_sha256 == <<"r","s","a","-","s","h","a","2","5","6">>
dns_txt == <<"d","n","s","/","t","x","t">>
simple == <<"s","i","m","p","l","e">>
relaxed == <<"r","e","l","a","x","e","d">>

\* canonicalize[k].name
SchemeName(scheme) == IF scheme = Simple THEN simple ELSE relaxed

\* an optional argument: <<>> is None, <<v>> is the value v
None == <<>>
Some(v) == <<v>>

\* lines 309-322: the tag list, in this order
sigfields(a, headers_signed, canon_body, bodyhash) ==
    <<<<<<"v">>, <<"1">>>>,
      <<<<"a">>, rsa_sha256>>,
      <<<<"c">>, SchemeName(a.canonicalize[1]) \o <<"/">>
                 \o SchemeName(a.canonicalize[2])>>,
      <<<<"d">>, a.domain>>,
      <<<<"i">>, IF a.identity # None /\ a.identity[1] # <<>>
                 THEN a.identity[1] ELSE <<"@">> \o a.domain>>>>
    \o (IF a.length THEN <<<<<<"l">>, str(Len(canon_body))>>>> ELSE <<>>)
    \o <<<<<<"q">>, dns_txt>>,
         <<<<"s">>, a.selector>>,
         <<<<"t">>, a.time>>,
         <<<<"h">>, join(<<SP, ":", SP>>,
                         [k \in DOMAIN headers_signed |-> headers_signed[k][1]])>>,
         <<<<"b", "h">>, bodyhash>>,
         <<<<"b">>, <<>>>>>>

\* lines 297-301: the headers sign feeds to the digest
sign_select(hs, include) ==
    LET names == IF include = None THEN {lower(hs[k][1]) : k \in DOMAIN hs}
                 ELSE {lower(include[1][k]) : k \in DOMAIN include[1]}
    IN  SelectSeq(hs, LAMBDA x : lower(x[1]) \in names)

\* lines 324-326: the serialized and folded tag list
sign_value(fields) ==
    fold(join(<<";", SP>>,
              [k \in DOMAIN fields |-> fields[k][1] \o <<"=">> \o fields[k][2]]))

\* lines 325-330: the DKIM-Signature header as it is hashed
sign_dkim_header(scheme, sig_value) ==
    LET dkim_header == canonicalize_headers(scheme,
                           <<<<DKIM_Signature, <<SP>> \o sig_value>>>>)[1]
    IN  IF SliceFrom(dkim_header[2], -2) = CRLF
        THEN <<dkim_header[1], SliceTo(dkim_header[2], -2)>>
        ELSE dkim_header

\* sign(message, ...): the header line returned, or what is raised
sign(m, a) ==
    LET parsed == rfc822_parse(m)
        pk == parse_pem_private_key(a.privkey)
        hs == canonicalize_headers(a.canonicalize[1], parsed.headers)
        selected == sign_select(hs, a.include_headers)
        canon_body == canonicalize_body(a.canonicalize[2], parsed.body)
        bodyhash == b64encode(Digest("sha256", canon_body))
        sig_value == sign_value(sigfields(a, selected, canon_body, bodyhash))
        fed == Append(selected, sign_dkim_header(a.canonicalize[1], sig_value))
        sig2 == RSASSA_PKCS1_v1_5_sign(Digest("sha256", hasher_update(fed)), pk.key)
    IN  IF parsed.exc # "" THEN [exc |-> parsed.exc, value |-> <<>>]
        ELSE IF pk.exc # "" THEN [exc |-> "KeyFormatError", value |-> <<>>]
        ELSE IF a.identity # None /\ ~endswith(a.identity[1], a.domain)
        THEN [exc |-> "ParameterError", value |-> <<>>]
        ELSE [exc |-> "",
              value |-> DKIM_Signature \o <<":", SP>> \o sig_value
                        \o b64encode(sig2) \o CRLF]

-----------------------------------------------------------------------------
(* verify *)

WordChars == Upper \cup Lower \cup Digits \cup {"_"}

\* lines 379-388: re.match("(\w+)(?:/(\w+))?$", c) and the two method names;
\* the body method is "simple" when c names only the header method
parse_canonicalization(c) ==
    LET w1 == RunLen(c, 0, WordChars)
        w2 == RunLen(c, w1 + 1, WordChars)
    IN  IF w1 >= 1 /\ AtEnd(c, w1)
        THEN [match |-> TRUE, can_headers |-> SliceTo(c, w1), can_body |-> simple]
        ELSE IF /\ w1 >= 1 /\ OccursAt(c, <<"/">>, w1)
                /\ w2 >= 1 /\ AtEnd(c, w1 + 1 + w2)
        THEN [match |-> TRUE, can_headers |-> SliceTo(c, w1),
              can_body |-> Slice(c, w1 + 1, w1 + 1 + w2)]
        ELSE [match |-> FALSE, can_headers |-> <<>>, can_body |-> <<>>]

\* the scheme a method name selects (lines 390-406), "" when it is unknown
SchemeOf(name) ==
    IF name = simple THEN Simple ELSE IF name = relaxed THEN Relaxed ELSE ""

\* lines 408-414: the digest a= selects, "" when it is unknown
HasherOf(a) ==
    IF a = rsa_sha1 THEN "sha1" ELSE IF a = rsa_sha256 THEN "sha256" ELSE ""

\* the whole body, whatever l= says
whole_body(canon_body, tags) == canon_body

\* lines 416-417: the body the digest covers
truncate_body(canon_body, tags) ==
    IF HasTag(tags, <<"l">>)
    THEN SliceTo(canon_body, int(Tag(tags, <<"l">>)))
    ELSE canon_body

\* re.split(r"\s*:\s*", s)
SplitColons(s) ==
    LET parts == SplitAt(s, ":")
    IN  [k \in DOMAIN parts |->
            LET left == IF k = 1 THEN parts[k] ELSE lstrip(parts[k])
            IN  IF k = Len(parts) THEN left ELSE rstrip(left)]

\* lines 429-452: the key lookup, the header hash and the RSA check
verify_signature(scheme, hasher_alg, hs, sigs, tags, txt) ==
    LET pub == parse_tag_value(txt[1])
        der == b64decode(Tag(pub.tags, <<"p">>))
        pk == parse_public_key(der.value)
        hashed == hash_headers(scheme, hs, SplitColons(Tag(tags, <<"h">>)),
                               sigs, tags)
        signature == b64decode(RemoveWhitespace(Tag(tags, <<"b">>)))
    IN  IF txt = None \/ txt[1] = <<>> THEN "False"
        ELSE IF pub.exc # "" THEN "False"
        ELSE IF ~HasTag(pub.tags, <<"p">>) THEN "KeyError"
        ELSE IF der.exc # "" THEN der.exc
        ELSE IF pk.exc # "" THEN "False"
        ELSE IF hashed.exc # "" THEN hashed.exc
        ELSE IF signature.exc # "" THEN signature.exc
        ELSE IF RSASSA_PKCS1_v1_5_verify(
                    Digest(hasher_alg, hashed.hasher), signature.value, pk.key)
        THEN "True"
        ELSE "False"

\* lines 379-427, then the signature check: from the validated tag list on
verify_fields(parsed, sigs, tags, txt) ==
    LET c == parse_canonicalization(Tag(tags, <<"c">>))
        scheme_h == SchemeOf(c.can_headers)
        scheme_b == SchemeOf(c.can_body)
        hs == canonicalize_headers(scheme_h, parsed.headers)
        canon_body == canonicalize_body(scheme_b, parsed.body)
        hasher_alg == HasherOf(Tag(tags, <<"a">>))
        bh == b64decode(RemoveWhitespace(Tag(tags, <<"b", "h">>)))
    IN  IF ~HasTag(tags, <<"c">>) THEN "KeyError"
        ELSE IF ~c.match THEN "False"
        ELSE IF scheme_h = "" THEN "False"
        ELSE IF scheme_b = "" THEN "False"
        ELSE IF hasher_alg = "" THEN "False"
        ELSE IF HasTag(tags, <<"l">>) /\ Tag(tags, <<"l">>) = <<>>
        \* int("")
        THEN "ValueError"
        ELSE IF bh.exc # "" THEN bh.exc
        ELSE IF Digest(hasher_alg, truncate_body(canon_body, tags)) # bh.value
        THEN "False"
        ELSE verify_signature(scheme_h, hasher_alg, hs, sigs, tags, txt)

\* verify(message, dnsfunc=lambda name: txt): "True", "False", or the name
\* of the exception that leaves verify
verify(m, txt) ==
    LET parsed == rfc822_parse(m)
        sigs == SelectSeq(parsed.headers,
                    LAMBDA x : lower(x[1]) = lower(DKIM_Signature))
        tl == parse_tag_value(sigs[1][2])
        invalid == validate_signature_fields(tl.tags)
    IN  IF parsed.exc # "" THEN parsed.exc
        ELSE IF Len(sigs) < 1 THEN "False"
        ELSE IF tl.exc # "" THEN "False"
        ELSE IF invalid = "ValidationError" THEN "False"
        ELSE IF invalid # "" THEN invalid
        ELSE verify_fields(parsed, sigs, tl.tags, txt)

\* the TXT record that publishes the public key of k
TxtOf(k) == Some(<<"p", "=">> \o b64encode(DerOf(k)))

\* every byte string over the characters A of at most n bytes
Strings(A, n) == UNION {[1..k -> A] : k \in 0..n}

-----------------------------------------------------------------------------
(* The canonicalizers applied once and twice *)

MaxBodyLen == 3
MaxValueLen == 2

CanonBodies == Strings({"a", SP, TAB, CR, LF}, MaxBodyLen)
CanonHeaderLists ==
    {<<>>} \cup
    {<<<<name, value \o CRLF>>>> :
        name \in {<<"A", "b">>, <<"a", "b">>},
        value \in Strings({"a", SP, TAB}, MaxValueLen)
                  \cup {<<"a", CR, LF, SP, "a">>}}

Unused == <<>>

CanonInit ==
    /\ pc = "raw"
    /\ canonicalize \in Schemes \X Schemes
    /\ \/ body \in CanonBodies /\ headers = <<>>
       \/ body = <<>> /\ headers \in CanonHeaderLists
    /\ once = <<headers, body>>
    /\ include_headers = Unused /\ lastindex = Unused /\ sign_headers = Unused
    /\ sigheaders = Unused /\ sig = Unused /\ hasher = Unused
    /\ header = Unused /\ pre = Unused
    /\ message = Unused /\ args = Unused /\ original = Unused /\ result = Unused

\* the first pass of canonicalize[0].canonicalize_headers and
\* canonicalize[1].canonicalize_body
CanonicalizeOnce ==
    /\ pc = "raw"
    /\ headers' = canonicalize_headers(canonicalize[1], headers)
    /\ body' = canonicalize_body(canonicalize[2], body)
    /\ once' = <<headers', body'>>
    /\ pc' = "once"
    /\ UNCHANGED <<canonicalize, hashVars, foldVars, pipeVars>>

\* the same canonicalizers applied to their own output
CanonicalizeTwice ==
    /\ pc = "once"
    /\ headers' = canonicalize_headers(canonicalize[1], headers)
    /\ body' = canonicalize_body(canonicalize[2], body)
    /\ pc' = "twice"
    /\ UNCHANGED <<canonicalize, once, hashVars, foldVars, pipeVars>>

CanonNext == CanonicalizeOnce \/ CanonicalizeTwice

SpecCanon == CanonInit /\ [][CanonNext]_vars

\* C4: canonicalizing a canonicalized body or header list changes nothing,
\* for the simple and the relaxed scheme, whatever the body ends in.
CanonicalizationIdempotent ==
    pc = "twice" => <<headers, body>> = once

-----------------------------------------------------------------------------
(* fold, one step at a time *)

\* the lines of s, split at each "\r\n"
SplitCrlf(s) ==
    LET at == Sorted(Occurrences(s, CRLF))
    IN  [k \in 1..(Len(at) + 1) |->
            SubSeq(s, IF k = 1 THEN 1 ELSE at[k - 1] + 3,
                      IF k = Len(at) + 1 THEN Len(s) ELSE at[k])]

MaxWords == 3

\* n bytes that are not spaces
Word(n) == [i \in 1..n |-> "a"]

\* single-line inputs: words of these lengths with one space between them
FoldInputs ==
    {join(<<SP>>, [k \in DOMAIN ns |-> Word(ns[k])]) :
        ns \in UNION {[1..k -> {1, 35, 36, 71, 72, 73, 74}] : k \in 1..MaxWords}}

FoldInit ==
    /\ pc = "fold"
    /\ header \in FoldInputs
    /\ pre = <<>>
    /\ result = <<>>
    /\ canonicalize = Unused /\ headers = Unused /\ body = Unused /\ once = Unused
    /\ include_headers = Unused /\ lastindex = Unused /\ sign_headers = Unused
    /\ sigheaders = Unused /\ sig = Unused /\ hasher = Unused
    /\ message = Unused /\ args = Unused /\ original = header

FoldStart ==
    /\ pc = "fold"
    /\ pre' = fold_start(header).pre
    /\ header' = fold_start(header).header
    /\ pc' = "while"
    /\ UNCHANGED <<canonicalize, canonVars, hashVars, message, args, original, result>>

FoldStep ==
    /\ pc = "while"
    /\ Len(header) > FoldWidth
    /\ pre' = fold_step([pre |-> pre, header |-> header]).pre
    /\ header' = fold_step([pre |-> pre, header |-> header]).header
    /\ UNCHANGED <<pc, canonicalize, canonVars, hashVars, message, args, original, result>>

FoldReturn ==
    /\ pc = "while"
    /\ Len(header) <= FoldWidth
    /\ result' = pre \o header
    /\ pc' = "folded"
    /\ UNCHANGED <<canonicalize, canonVars, hashVars, foldVars, message, args, original>>

FoldNext == FoldStart \/ FoldStep \/ FoldReturn

SpecFold == FoldInit /\ [][FoldNext]_vars

\* C8: fold returns, and every line of what it returns (the continuation
\* space included) is at most 72 bytes long.
FoldLinesWithinWidth ==
    pc = "folded" =>
        \A k \in DOMAIN SplitCrlf(result) : Len(SplitCrlf(result)[k]) <= FoldWidth

\* every turn of fold's loop shortens the text still to fold
FoldAdvances == [][FoldStep => Len(header') < Len(header)]_vars

-----------------------------------------------------------------------------
(* hash_headers, one step at a time *)

MaxHashHeaders == 3
MaxInclude == 3

\* the header lists: names A and B in every order, the k-th value being k
HashHeaderLists ==
    {[k \in DOMAIN names |-> <<<<names[k]>>, <<DigitSeq[k + 1], CR, LF>>>>] :
        names \in UNION {[1..n -> {"A", "B"}] : n \in 0..MaxHashHeaders}
                  \cup {<<"A", "B", "A", "B", "A">>}}

IncludeLists == UNION {[1..n -> {<<"a">>, <<"A">>, <<"b">>}] : n \in 0..MaxInclude}

\* DKIM-Signature headers whose b= value is XY
HashSigHeaders ==
    {<<<<DKIM_Signature, <<SP, "b", "=", "X", "Y", CR, LF>>>>>>,
     <<<<DKIM_Signature, <<SP, "h", "=", "a", ";", SP, "b", "=", "X", "Y", SP, CR, LF>>>>>>}

HashInit ==
    /\ pc = "select"
    /\ canonicalize \in Schemes \X {Simple}
    /\ \E hs \in HashHeaderLists : headers = canonicalize_headers(canonicalize[1], hs)
    /\ include_headers \in IncludeLists
    /\ original = include_headers
    /\ sigheaders \in HashSigHeaders
    /\ sig = parse_tag_value(sigheaders[1][2]).tags
    /\ lastindex = NoIndex
    /\ sign_headers = <<>>
    /\ hasher = <<>>
    /\ body = Unused /\ once = Unused /\ header = Unused /\ pre = Unused
    /\ message = Unused /\ args = Unused /\ result = Unused

\* lines 123-130: one turn of the loop, for the next name of include_headers
SelectHeader ==
    /\ pc = "select"
    /\ include_headers # <<>>
    /\ LET st == select_header(
                    [lastindex |-> lastindex, sign_headers |-> sign_headers],
                    Head(include_headers), headers)
       IN  /\ lastindex' = st.lastindex
           /\ sign_headers' = st.sign_headers
    /\ include_headers' = Tail(include_headers)
    /\ UNCHANGED <<pc, canonicalize, canonVars, sigheaders, sig, hasher,
                   foldVars, pipeVars>>

\* the loop is over
SelectDone ==
    /\ pc = "select"
    /\ include_headers = <<>>
    /\ pc' = "selected"
    /\ UNCHANGED <<canonicalize, canonVars, hashVars, foldVars, pipeVars>>

\* lines 133-135
AppendSignature ==
    /\ pc = "selected"
    /\ sign_headers' = sign_headers \o signature_headers(canonicalize[1], sigheaders, sig)
    /\ pc' = "update"
    /\ UNCHANGED <<canonicalize, canonVars, include_headers, lastindex,
                   sigheaders, sig, hasher, foldVars, pipeVars>>

\* lines 136-139
HasherUpdate ==
    /\ pc = "update"
    /\ hasher' = hasher_update(sign_headers)
    /\ pc' = "hashed"
    /\ UNCHANGED <<canonicalize, canonVars, include_headers, lastindex,
                   sign_headers, sigheaders, sig, foldVars, pipeVars>>

HashNext == SelectHeader \/ SelectDone \/ AppendSignature \/ HasherUpdate

SpecHash == HashInit /\ [][HashNext]_vars

\* the names of include[1..j] equal to include[j] whatever the case
Occurrence(include, j) ==
    Cardinality({i \in 1..j : lower(include[i]) = lower(include[j])})

\* the indexes of the headers called name, whatever the case, last first
Named(hs, name) ==
    LET at == Sorted({k \in DOMAIN hs : lower(hs[k][1]) = lower(name)})
    IN  [k \in DOMAIN at |-> at[Len(at) + 1 - k]]

\* the k-th occurrence of a name in include selects the k-th-from-last
\* header with that name, and nothing when there are fewer
ExpectedSelection(hs, include) ==
    Concat([j \in DOMAIN include |->
        IF Occurrence(include, j) <= Len(Named(hs, include[j]))
        THEN <<hs[Named(hs, include[j])[Occurrence(include, j)]]>>
        ELSE <<>>])

\* C6: header names being matched whatever their case, the k-th occurrence
\* of a name in include_headers selects the k-th-from-last header with that
\* name, in the order of include_headers.
PerNameCursorSelection ==
    pc = "selected" => sign_headers = ExpectedSelection(headers, original)

\* the per-name cursor on the example of the specification
PerNameCursorExample ==
    /\ pc = "selected"
    /\ Len(headers) = 5
    /\ original = <<<<"a">>, <<"b">>, <<"a">>>>
    /\ sign_headers = <<headers[5], headers[4], headers[3]>>

\* C9 as stated: every header fed but the last has no trailing whitespace
\* left, and the last is the DKIM-Signature without its b= value, as it
\* stands but for its final "\r\n".
OthersStrippedLastAsIs ==
    pc = "hashed" =>
        /\ \A k \in 1..(Len(sign_headers) - 1) :
              sign_headers[k][2] = rstrip(sign_headers[k][2])
        /\ LET last == canonicalize_headers(canonicalize[1],
                         <<<<sigheaders[1][1],
                             _remove(sigheaders[1][2], Tag(sig, <<"b">>)).value>>>>)[1]
           IN  /\ endswith(last[2], CRLF)
               /\ sign_headers[Len(sign_headers)] = <<last[1], SliceTo(last[2], -2)>>

\* C9 amended: every header fed but the last is a header of the list as it
\* stands, its final "\r\n" included; the last is the DKIM-Signature without
\* its b= value, canonicalized, with all its trailing whitespace stripped;
\* the digest is fed name, ":", value of each with nothing in between.
OthersAsIsLastStripped ==
    pc = "hashed" =>
        /\ \A k \in 1..(Len(sign_headers) - 1) :
              /\ \E j \in DOMAIN headers : sign_headers[k] = headers[j]
              /\ endswith(sign_headers[k][2], CRLF)
        /\ LET last == sign_headers[Len(sign_headers)]
           IN  /\ lower(last[1]) = lower(DKIM_Signature)
               /\ last[2] # <<>>
               /\ last[2][Len(last[2])] = "="
               /\ Occurrences(last[2], <<"X", "Y">>) = {}
        /\ hasher = Concat([k \in DOMAIN sign_headers |->
                        sign_headers[k][1] \o <<":">> \o sign_headers[k][2]])
        /\ Len(hasher) >= Len(sign_headers)

\* hash_headers has fed a selected header and the DKIM-Signature header
HashedSelectedHeaders ==
    /\ pc = "hashed"
    /\ Len(sign_headers) >= 3
    /\ canonicalize[1] = Simple
    /\ Len(sigheaders[1][2]) > 7

-----------------------------------------------------------------------------
(* verify on messages signed elsewhere *)

\* the tag list fields with the tag key set to value, or without it
With(fields, key, value) ==
    IF HasTag(fields, key)
    THEN [k \in DOMAIN fields |->
             IF fields[k][1] = key THEN <<key, value>> ELSE fields[k]]
    ELSE Append(fields, <<key, value>>)
Without(fields, key) == SelectSeq(fields, LAMBDA f : f[1] # key)

\* "key=value; key=value"
TagList(fields) ==
    join(<<";", SP>>, [k \in DOMAIN fields |-> fields[k][1] \o <<"=">> \o fields[k][2]])

\* the canonicalization a signer following RFC 6376 applies for the tag list
\* fields: the one c= names, simple for the body when c= names one method,
\* simple/simple without c=
SignerSchemes(fields) ==
    LET c == parse_canonicalization(Tag(fields, <<"c">>))
    IN  IF HasTag(fields, <<"c">>) /\ c.match
           /\ SchemeOf(c.can_headers) # "" /\ SchemeOf(c.can_body) # ""
        THEN <<SchemeOf(c.can_headers), SchemeOf(c.can_body)>>
        ELSE <<Simple, Simple>>

\* the signed message another signer sends for the message rest and the
\* tags fields: bh= and b= are computed with the key k over the body and the
\* headers h= names, unless fields holds them already
SignedElsewhere(rest, fields, k) ==
    LET parsed == rfc822_parse(rest)
        schemes == SignerSchemes(fields)
        alg == IF HasTag(fields, <<"a">>) /\ HasherOf(Tag(fields, <<"a">>)) # ""
               THEN HasherOf(Tag(fields, <<"a">>)) ELSE "sha256"
        canon_body == canonicalize_body(schemes[2], parsed.body)
        covered == IF /\ HasTag(fields, <<"l">>)
                      /\ Tag(fields, <<"l">>) # <<>>
                      /\ Range(Tag(fields, <<"l">>)) \subseteq Digits
                   THEN truncate_body(canon_body, fields) ELSE canon_body
        withbh == IF HasTag(fields, <<"b", "h">>) THEN fields
                  ELSE Append(fields, <<<<"b", "h">>, b64encode(Digest(alg, covered))>>)
        unsigned == <<SP>> \o TagList(Without(withbh, <<"b">>)) \o <<";", SP, "b", "=">>
        hashed == hash_headers(schemes[1],
                      canonicalize_headers(schemes[1], parsed.headers),
                      IF HasTag(fields, <<"h">>)
                      THEN SplitColons(Tag(fields, <<"h">>)) ELSE <<>>,
                      <<<<DKIM_Signature, unsigned \o CRLF>>>>,
                      Append(withbh, <<<<"b">>, <<>>>>))
        b == IF HasTag(fields, <<"b">>) THEN Tag(fields, <<"b">>)
             ELSE b64encode(RSASSA_PKCS1_v1_5_sign(Digest(alg, hashed.hasher), k))
    IN  DKIM_Signature \o <<":">> \o unsigned \o b \o CRLF \o rest

\* a complete tag list, bh= and b= apart
ValidFields ==
    <<<<<<"v">>, <<"1">>>>,
      <<<<"a">>, rsa_sha256>>,
      <<<<"c">>, simple \o <<"/">> \o simple>>,
      <<<<"d">>, <<"d">>>>,
      <<<<"i">>, <<"@", "d">>>>,
      <<<<"q">>, dns_txt>>,
      <<<<"s">>, <<"s">>>>,
      <<<<"t">>, <<"7">>>>,
      <<<<"h">>, <<"a">>>>>>

\* tag lists a verifier may meet
VerifyFields ==
    {ValidFields,
     Without(ValidFields, <<"c">>),
     With(ValidFields, <<"c">>, relaxed),
     With(ValidFields, <<"c">>, relaxed \o <<"/">> \o relaxed),
     With(ValidFields, <<"c">>, simple \o <<"/", "x">>),
     With(ValidFields, <<"c">>, <<"x">>),
     With(ValidFields, <<"c">>, <<"/">>),
     Without(ValidFields, <<"i">>),
     With(ValidFields, <<"i">>, <<"@", "e">>),
     With(ValidFields, <<"i">>, <<"d">>),
     With(ValidFields, <<"i">>, <<"x", "d">>),
     With(ValidFields, <<"i">>, <<"x", "@", "a", ".", "d">>),
     With(Without(ValidFields, <<"t">>), <<"x">>, <<"9">>),
     With(ValidFields, <<"x">>, <<"3">>),
     With(ValidFields, <<"x">>, <<"9">>),
     With(ValidFields, <<"t">>, <<"x">>),
     Without(ValidFields, <<"d">>),
     Without(ValidFields, <<"h">>),
     With(ValidFields, <<"v">>, <<"2">>),
     With(ValidFields, <<"a">>, rsa_sha1),
     With(ValidFields, <<"a">>, <<"x">>),
     With(ValidFields, <<"q">>, <<"x">>),
     With(ValidFields, <<"l">>, <<>>),
     With(ValidFields, <<"l">>, <<"1">>),
     With(ValidFields, <<"l">>, <<"x">>),
     With(ValidFields, <<"b", "h">>, <<"a", "b", "c">>),
     With(ValidFields, <<"b", "h">>, <<"a", "b", "c", "d">>),
     With(ValidFields, <<"b", "h">>, <<"-">>),
     With(ValidFields, <<"b">>, <<"a", "b", "c">>),
     With(ValidFields, <<"b">>, <<"a", "b", "c", "d">>)}

\* the messages the signatures are made for
VerifyRests ==
    {<<"A", ":", "x", CR, LF, CR, LF, "b", "o", CR, LF>>,
     <<"A", ":", SP, "x", SP, LF, "a", ":", "y", LF, LF, "b", SP, LF, LF>>,
     <<"B", ":", "x", CR, LF>>}

\* messages without a usable DKIM-Signature header
UnsignedMessages ==
    {<<>>,
     <<"A", ":", "x", CR, LF, CR, LF, "b", "o", CR, LF>>,
     <<"x">>,
     <<"A", ":", "x", CR, LF, "x", CR, LF>>,
     <<SP, "A", ":", "x", CR, LF>>,
     DKIM_Signature \o <<":", SP, "v", CR, LF>>,
     DKIM_Signature \o <<":", SP, "v", "=", "1", ";", "v", "=", "1", CR, LF>>,
     DKIM_Signature \o <<":", CR, LF>>}

\* what the DNS lookup can answer
TxtRecords ==
    {None, Some(<<>>), TxtOf("k1"), TxtOf("k2"),
     Some(<<"x">>),
     Some(<<"k", "=", "r", "s", "a">>),
     Some(<<"p", "=", "a", "b", "c">>),
     Some(<<"p", "=">> \o b64encode("junk"))}

VerifyInit ==
    /\ pc = "received"
    /\ \/ \E rest \in VerifyRests, fields \in VerifyFields :
             /\ message = SignedElsewhere(rest, fields, "k1")
             /\ original = [fields |-> fields, key |-> "k1"]
       \/ /\ message \in UnsignedMessages
          /\ original = [fields |-> <<>>, key |-> ""]
    /\ args \in [dnsfunc : TxtRecords]
    /\ result = Unused
    /\ canonicalize = Unused
    /\ headers = Unused /\ body = Unused /\ once = Unused
    /\ include_headers = Unused /\ lastindex = Unused /\ sign_headers = Unused
    /\ sigheaders = Unused /\ sig = Unused /\ hasher = Unused
    /\ header = Unused /\ pre = Unused

\* verify(message, dnsfunc=lambda name: args.dnsfunc) is called
Verify ==
    /\ pc \in {"received", "signed", "appended", "tampered"}
    /\ result' = verify(message, args.dnsfunc)
    /\ pc' = IF pc \in {"appended", "tampered"} THEN "checked" ELSE "verified"
    /\ UNCHANGED <<canonicalize, canonVars, hashVars, foldVars,
                   message, args, original>>

VerifyNext == Verify

SpecVerify == VerifyInit /\ [][VerifyNext]_vars

\* C2: verify ends by returning true or false, whatever the message and
\* whatever the DNS lookup answers; it never lets an exception out.
VerifyReturnsBoolean ==
    pc = "verified" => result \in {"True", "False"}

\* C7: a signature without c=, otherwise valid and made with simple/simple
\* by the key the lookup answers, verifies true.
VerifiesWithoutC ==
    (/\ pc = "verified"
     /\ original.fields = Without(ValidFields, <<"c">>)
     /\ args.dnsfunc = TxtOf(original.key))
    => result = "True"

\* when c= names the header method only, the body is canonicalized simple
\* and the signature made so verifies
BodyDefaultsToSimple ==
    (/\ pc = "verified"
     /\ original.fields = With(ValidFields, <<"c">>, relaxed)
     /\ args.dnsfunc = TxtOf(original.key))
    => result = "True"

-----------------------------------------------------------------------------
(* sign, then verify *)

\* the message with the headers hs, each <<name, value>>, and the body b
Message(hs, b) ==
    Concat([k \in DOMAIN hs |-> hs[k][1] \o <<":">> \o hs[k][2] \o CRLF])
    \o CRLF \o b

MaxSignHeaders == 2

SignHeaders == {<<<<"A">>, <<"x">>>>, <<<<"A">>, <<"y">>>>, <<<<"B">>, <<SP, "x">>>>}
SignBodies == {<<>>, <<"b", "o">>, <<"b", "o", CR, LF>>}
SignMessages ==
    {Message(hs, b) :
        hs \in UNION {[1..n -> SignHeaders] : n \in 0..MaxSignHeaders},
        b \in SignBodies}

\* the identity argument: absent, or a string
Identities ==
    {None, Some(<<"@", "d">>), Some(<<"x", "@", "a", ".", "d">>),
     Some(<<"d">>), Some(<<"x", "d">>), Some(<<"@", "e">>)}

\* the arguments of sign, and the lookup of the verifier that answers the
\* public key of privkey
SignArgs(identities, lengths) ==
    [selector : {<<"s">>}, domain : {<<"d">>}, privkey : {PemOf("k1")},
     identity : identities, canonicalize : Schemes \X Schemes,
     include_headers : {None}, length : lengths, time : {<<"7">>},
     dnsfunc : {TxtOf("k1")}]

SignInit ==
    /\ pc = "composed"
    /\ message \in SignMessages
    /\ args \in SignArgs(Identities, {FALSE})
    /\ original = [message |-> message, result |-> "", where |-> ""]
    /\ result = Unused
    /\ canonicalize = Unused
    /\ headers = Unused /\ body = Unused /\ once = Unused
    /\ include_headers = Unused /\ lastindex = Unused /\ sign_headers = Unused
    /\ sigheaders = Unused /\ sig = Unused /\ hasher = Unused
    /\ header = Unused /\ pre = Unused

\* sign(message, ...) is called and the header it returns is put before
\* the message
Sign ==
    /\ pc = "composed"
    /\ LET r == sign(message, args)
       IN  IF r.exc = ""
           THEN /\ message' = r.value \o message
                /\ pc' = "signed"
                /\ result' = result
           ELSE /\ message' = message
                /\ pc' = "raised"
                /\ result' = r.exc
    /\ UNCHANGED <<canonicalize, canonVars, hashVars, foldVars, args, original>>

SignNext == Sign \/ Verify

SpecSign == SignInit /\ [][SignNext]_vars

\* C1: a message signed by sign with the default identity and the default
\* include_headers verifies true with the matching public key.
RoundTrip ==
    (pc = "verified" /\ args.identity = None) => result = "True"

\* the tags of the first DKIM-Signature header of m
SignatureTags(m) ==
    LET hs == rfc822_parse(m).headers
    IN  parse_tag_value(
            SelectSeq(hs, LAMBDA x : lower(x[1]) = lower(DKIM_Signature))[1][2]).tags

\* C10: the i= and d= sign emits pass the i= check of the validator: i ends
\* with d and the character just before that suffix exists and is "@" or ".".
EmittedIdentityValid ==
    pc = "signed" =>
        LET i == Tag(SignatureTags(message), <<"i">>)
            d == Tag(SignatureTags(message), <<"d">>)
        IN  /\ endswith(i, d)
            /\ Len(i) > Len(d)
            /\ i[Len(i) - Len(d)] \in {"@", "."}

-----------------------------------------------------------------------------
(* a signed message changed in transit *)

\* the message rfc822_parse reads as parsed, with "\r\n" line ends
Unparse(parsed) ==
    Concat([k \in DOMAIN parsed.headers |->
               parsed.headers[k][1] \o <<":">> \o parsed.headers[k][2]])
    \o CRLF \o parsed.body

MaxBodyUnits == 2

\* bodies of at most MaxBodyUnits units, a unit being a byte or a line end
LengthBodies ==
    {Concat(units) : units \in Strings({<<"a">>, <<SP>>, CRLF, <<LF>>}, MaxBodyUnits)}
LengthHeaderLists ==
    {<<<<<<"A">>, <<SP, "x">>>>>>,
     <<<<<<"A">>, <<"x">>>>, <<<<"A">>, <<"y">>>>>>}

\* what is appended to the signed message
AppendedBytes == {<<"x">>, <<SP>>, CRLF, <<"x", CR, LF>>, <<LF, "x">>}

NoChange(m) == [message |-> m, result |-> "", where |-> ""]

LengthInit ==
    /\ pc = "composed"
    /\ \E hs \in LengthHeaderLists, b \in LengthBodies : message = Message(hs, b)
    /\ args \in SignArgs({None}, {TRUE})
    /\ original = NoChange(message)
    /\ result = Unused
    /\ canonicalize = Unused
    /\ headers = Unused /\ body = Unused /\ once = Unused
    /\ include_headers = Unused /\ lastindex = Unused /\ sign_headers = Unused
    /\ sigheaders = Unused /\ sig = Unused /\ hasher = Unused
    /\ header = Unused /\ pre = Unused

\* bytes are appended to the verified message
AppendBytes ==
    /\ pc = "verified"
    /\ \E e \in AppendedBytes : message' = message \o e
    /\ original' = [message |-> message, result |-> result, where |-> "end"]
    /\ pc' = "appended"
    /\ UNCHANGED <<canonicalize, canonVars, hashVars, foldVars, args, result>>

LengthNext == Sign \/ Verify \/ AppendBytes

SpecLength == LengthInit /\ [][LengthNext]_vars

\* the body rfc822_parse reads in m
BodyOf(m) == rfc822_parse(m).body

\* C5 as stated: whatever is appended to a message signed with
\* length=True, verify returns true.
AppendedStillVerifies ==
    (pc = "checked" /\ original.where = "end") => result = "True"

\* C5 amended: when the body signed with length=True ends with a line end,
\* verify returns after the append what it returned before it.
AppendedVerifiesAsBefore ==
    (/\ pc = "checked"
     /\ original.where = "end"
     /\ endswith(BodyOf(original.message), CRLF))
    => result = original.result

\* bytes were appended after the final line end of a message that
\* verified, and it verifies still
AppendedAfterLineEnd ==
    /\ pc = "checked"
    /\ original.where = "end"
    /\ endswith(BodyOf(original.message), CRLF)
    /\ Len(message) > Len(original.message)
    /\ args.canonicalize[2] = Relaxed
    /\ original.result = "True"
    /\ result = "True"

-----------------------------------------------------------------------------
(* one bit of a signed message flipped in transit *)

PunctSeq == <<"!","#","$","%","&","'","(",")","*","+",",","-",".","/",":",
              ";","<","=",">","?","@","[","\\","]","^","_","{","|","}","~">>
PunctCodes == <<33, 35, 36, 37, 38, 39, 40, 41, 42, 43, 44, 45, 46, 47, 58,
                59, 60, 61, 62, 63, 64, 91, 92, 93, 94, 95, 123, 124, 125, 126>>

\* the byte each character of the alphabet stands for
CodeTable ==
    {<<UpperSeq[k], 64 + k>> : k \in DOMAIN UpperSeq}
    \cup {<<LowerSeq[k], 96 + k>> : k \in DOMAIN LowerSeq}
    \cup {<<DigitSeq[k], 47 + k>> : k \in DOMAIN DigitSeq}
    \cup {<<PunctSeq[k], PunctCodes[k]>> : k \in DOMAIN PunctSeq}
    \cup {<<CTL, 1>>, <<TAB, 9>>, <<LF, 10>>, <<FF, 12>>, <<CR, 13>>, <<SP, 32>>}

ord == [c \in Alphabet |-> CHOOSE n \in 0..127 : <<c, n>> \in CodeTable]

Pow2 == <<1, 2, 4, 8, 16, 32, 64, 128>>
\* the byte n with the bit b flipped
FlipBit(n, b) ==
    IF (n \div Pow2[b + 1]) % 2 = 1 THEN n - Pow2[b + 1] ELSE n + Pow2[b + 1]

\* the characters of the alphabet that differ from c in exactly one bit
Flips ==
    [c \in Alphabet |->
        {d \in Alphabet : \E b \in 0..7 : ord[d] = FlipBit(ord[c], b)}]

MaxTamperBody == 1

TamperBodies ==
    {b \o e : b \in Strings({"a", SP}, MaxTamperBody), e \in {<<>>, CRLF}}
TamperHeaderLists ==
    {<<<<<<"A">>, <<"x">>>>>>, <<<<<<"a">>, <<SP, "x">>>>>>}

TamperInit ==
    /\ pc = "composed"
    /\ \E hs \in TamperHeaderLists, b \in TamperBodies : message = Message(hs, b)
    /\ args \in SignArgs({None}, BOOLEAN)
    /\ original = NoChange(message)
    /\ result = Unused
    /\ canonicalize = Unused
    /\ headers = Unused /\ body = Unused /\ once = Unused
    /\ include_headers = Unused /\ lastindex = Unused /\ sign_headers = Unused
    /\ sigheaders = Unused /\ sig = Unused /\ hasher = Unused
    /\ header = Unused /\ pre = Unused

\* s with the byte at the 1-based position j replaced by c
Replace(s, j, c) == [s EXCEPT ![j] = c]

\* one bit flips in the name or in the value (its line end apart) of a
\* header other than the DKIM-Signature
TamperHeader ==
    /\ pc = "verified"
    /\ result = "True"
    /\ LET parsed == rfc822_parse(message)
       IN  \E k \in 2..Len(parsed.headers), part \in 1..2 :
           \E j \in 1..(Len(parsed.headers[k][part]) - (IF part = 2 THEN 2 ELSE 0)) :
           \E c \in Flips[parsed.headers[k][part][j]] :
               message' = Unparse(
                   [parsed EXCEPT !.headers[k][part] = Replace(@, j, c)])
    /\ original' = [message |-> message, result |-> result, where |-> "header"]
    /\ pc' = "tampered"
    /\ UNCHANGED <<canonicalize, canonVars, hashVars, foldVars, args, result>>

\* one bit flips in the body
TamperBody ==
    /\ pc = "verified"
    /\ result = "True"
    /\ LET parsed == rfc822_parse(message)
       IN  \E j \in 1..Len(parsed.body) : \E c \in Flips[parsed.body[j]] :
               message' = Unparse([parsed EXCEPT !.body = Replace(@, j, c)])
    /\ original' = [message |-> message, result |-> result, where |-> "body"]
    /\ pc' = "tampered"
    /\ UNCHANGED <<canonicalize, canonVars, hashVars, foldVars, args, result>>

TamperNext == Sign \/ Verify \/ TamperHeader \/ TamperBody

SpecTamper == TamperInit /\ [][TamperNext]_vars

\* what the signature of m covers: the canonicalized headers its h= selects
\* and the canonicalized body, up to l= when it has one
SignedContent(m) ==
    LET parsed == rfc822_parse(m)
        tags == SignatureTags(m)
        schemes == SignerSchemes(tags)
    IN  [headers |->
            select_headers([lastindex |-> NoIndex, sign_headers |-> <<>>],
                SplitColons(Tag(tags, <<"h">>)), 1,
                canonicalize_headers(schemes[1], parsed.headers)).sign_headers,
         body |->
            truncate_body(canonicalize_body(schemes[2], parsed.body), tags)]

\* C3 as stated: after one bit of a signed header flips, or one bit flips
\* in the body and changes its canonicalized covered part, verify returns
\* false.
TamperedVerifiesFalse ==
    (/\ pc = "checked"
     /\ \/ original.where = "header"
        \/ /\ original.where = "body"
           /\ SignedContent(message).body # SignedContent(original.message).body)
    => result = "False"

\* C3 amended: after one bit of a signed header or of the body flips,
\* verify returns true only when the canonicalized selected headers and
\* the canonicalized covered body are what they were.
TamperedVerifiesOnlyUnchanged ==
    (/\ pc = "checked"
     /\ original.where \in {"header", "body"}
     /\ result = "True")
    => SignedContent(message) = SignedContent(original.message)

\* a flipped bit changed a signed header under the relaxed canonicalization
\* and verify returned false
TamperDetected ==
    /\ pc = "checked"
    /\ original.where = "header"
    /\ original.result = "True"
    /\ args.canonicalize = <<Relaxed, Relaxed>>
    /\ result = "False"

=============================================================================
